---- MODULE Spec2Model ----
(***************************************************************************)
(* Maya-style camera rig of the 3D model viewer.                           *)
(*                                                                         *)
(* Two programs of the repository carry the rig: the ModelViewer page      *)
(* (src/js/main.js, setupMayaControls: closures over isAltDown,            *)
(* activeControl, prevMouse, distanceToPivot, zoomStartDistance) and the   *)
(* App page (src/unnamed/part_000) that drives the MayaControls class      *)
(* (src/unnamed/part_001).  The variable app says which page is loaded.    *)
(*                                                                         *)
(* Numbers.  The code computes in IEEE doubles; the model computes in      *)
(* fixed point.  A world coordinate or a distance d is the integer         *)
(* d * Scale; a component of a unit vector, a quaternion component, a      *)
(* sine, a cosine or an angle in radians u is the integer u * Unit.        *)
(* Every quotient is rounded to the nearest integer (RoundDiv), standing   *)
(* for the rounding of the floating point operation.                       *)
(***************************************************************************)
EXTENDS Integers, Sequences, FiniteSets, TLC

\* Fixed-point resolutions: 1/100 world unit, 1/10000 for unit quantities.
Scale == 10 * 10
Unit == 100 * 100

NULL == "null"

\* ------------------------------------------------------------------ bounds
\* Camera-moving handler runs (drag steps and wheel steps) per behaviour.
MaxMoves == 1

\* ------------------------------------------------------- program constants
\* rotateSpeed = 0.005 = 1 / 200
RotateSpeedDen == 200
\* pan speed factor 0.001 = 1 / 1000
PanSpeedDen == 1000
\* main.js baseZoomSpeed = 0.00375 = 3 / 800
BaseZoomSpeedNum == 3
BaseZoomSpeedDen == 800
\* main.js wheel handler: Math.min(Math.abs(event.deltaY), 50)
WheelClamp == 50
\* MayaControls options.zoomSpeed = 0.0025 = 1 / 400
ZoomSpeedDen == 400
\* MayaControls options.wheelZoomSpeed = 0.00025 = 1 / 4000
WheelZoomSpeedDen == 4000
\* PerspectiveCamera(45, ...): vertical field of view in degrees
Fov == 45

\* Math.max(currentDistance, 0.5): the 0.5 in position units
MinAdaptiveDistance == Scale \div 2

\* ------------------------------------------------------------------ inputs
Buttons == 0 .. 3
Keys == {"Alt", "Control"}
\* pointer positions relative to the canvas (clientX - rect.left, ...)
MousePos == {<<0, 0>>, <<100, 80>>}
WheelDeltas == {-100, 0, 100}
\* points on model geometry a pick ray can hit
HitPoints == {<<2 * Scale, 0, 0>>}
NoHit == <<>>
\* click events: <<button, ctrlKey, what the pick ray hits>>
Clicks == {<<0, TRUE, h>> : h \in HitPoints \cup {NoHit}}
              \cup {<<0, FALSE, h>> : h \in HitPoints}
              \cup {<<2, TRUE, h>> : h \in HitPoints}
\* points handed to setPivotPoint by the App page
PivotArgs == HitPoints

\* -------------------------------------------------------------- arithmetic
Abs(x) == IF x < 0 THEN -x ELSE x

Sign(x) == IF x > 0 THEN 1 ELSE IF x < 0 THEN -1 ELSE 0

Max(a, b) == IF a >= b THEN a ELSE b

Min(a, b) == IF a <= b THEN a ELSE b

\* a / b rounded to the nearest integer, halves away from zero (b > 0)
RoundDiv(a, b) ==
    IF a >= 0 THEN (2 * a + b) \div (2 * b)
    ELSE -((2 * (-a) + b) \div (2 * b))

RECURSIVE SqrtSearch(_, _, _)
SqrtSearch(n, lo, hi) ==
    IF lo >= hi THEN lo
    ELSE LET mid == (lo + hi + 1) \div 2
         IN IF mid * mid <= n THEN SqrtSearch(n, mid, hi)
            ELSE SqrtSearch(n, lo, mid - 1)

\* Math.sqrt rounded to the nearest integer
Sqrt(n) ==
    LET r == SqrtSearch(n, 0, 46339)
    IN IF n - r * r > r THEN r + 1 ELSE r

\* Taylor series of sine and cosine on angles in 1/Unit radians
RECURSIVE SinTerms(_, _, _, _)
SinTerms(a, term, k, acc) ==
    IF term = 0 \/ k > 12 THEN acc
    ELSE LET next == -RoundDiv(RoundDiv(term * a, Unit) * a, Unit * (k + 1) * (k + 2))
         IN SinTerms(a, next, k + 2, acc + term)

Sin(a) == SinTerms(a, a, 1, 0)

Cos(a) == SinTerms(a, Unit, 0, 0)

\* ----------------------------------------------------------------- vectors
subVectors(a, b) == <<a[1] - b[1], a[2] - b[2], a[3] - b[3]>>

add(a, b) == <<a[1] + b[1], a[2] + b[2], a[3] + b[3]>>

dot(a, b) == a[1] * b[1] + a[2] * b[2] + a[3] * b[3]

lengthSq(v) == dot(v, v)

length(v) == Sqrt(lengthSq(v))

distanceTo(a, b) == length(subVectors(a, b))

\* Vector3.normalize: divideScalar(length() || 1); the result is in 1/Unit
normalize(v) ==
    LET len == length(v)
        d == IF len = 0 THEN 1 ELSE len
    IN <<RoundDiv(v[1] * Unit, d), RoundDiv(v[2] * Unit, d), RoundDiv(v[3] * Unit, d)>>

\* Vector3.addScaledVector(dir, s): dir in 1/Unit, s in position units
addScaledVector(p, dir, s) ==
    <<p[1] + RoundDiv(dir[1] * s, Unit),
      p[2] + RoundDiv(dir[2] * s, Unit),
      p[3] + RoundDiv(dir[3] * s, Unit)>>

\* Vector3.multiplyScalar on a 1/Unit vector by a length in position units
multiplyScalar(dir, s) == addScaledVector(<<0, 0, 0>>, dir, s)

\* cross product of two 1/Unit vectors, in 1/Unit
crossVectors(a, b) ==
    <<RoundDiv(a[2] * b[3] - a[3] * b[2], Unit),
      RoundDiv(a[3] * b[1] - a[1] * b[3], Unit),
      RoundDiv(a[1] * b[2] - a[2] * b[1], Unit)>>

\* Quaternion.setFromAxisAngle(axis, angle): axis in 1/Unit, angle in 1/Unit rad
setFromAxisAngle(axis, angle) ==
    LET half == RoundDiv(angle, 2)
        s == Sin(half)
    IN [x |-> RoundDiv(axis[1] * s, Unit),
        y |-> RoundDiv(axis[2] * s, Unit),
        z |-> RoundDiv(axis[3] * s, Unit),
        w |-> Cos(half)]

\* Vector3.applyQuaternion(q): q * v * q^-1 as three.js computes it
applyQuaternion(v, q) ==
    LET ix == RoundDiv(q.w * v[1] + q.y * v[3] - q.z * v[2], Unit)
        iy == RoundDiv(q.w * v[2] + q.z * v[1] - q.x * v[3], Unit)
        iz == RoundDiv(q.w * v[3] + q.x * v[2] - q.y * v[1], Unit)
        iw == RoundDiv(-q.x * v[1] - q.y * v[2] - q.z * v[3], Unit)
    IN <<RoundDiv(ix * q.w + iw * (-q.x) + iy * (-q.z) - iz * (-q.y), Unit),
         RoundDiv(iy * q.w + iw * (-q.y) + iz * (-q.x) - ix * (-q.z), Unit),
         RoundDiv(iz * q.w + iw * (-q.z) + ix * (-q.y) - iy * (-q.x), Unit)>>

\* Object3D.lookAt for a camera: Matrix4.lookAt(position, target, up = +Y).
\* The camera's orientation is kept as the images of the local X and Y axes,
\* which is all the rig reads of camera.quaternion.
lookAt(eye, target) ==
    LET z0 == subVectors(eye, target)
        z1 == IF lengthSq(z0) = 0 THEN <<0, 0, Unit>> ELSE normalize(z0)
        x0 == <<z1[3], 0, -z1[1]>>
        z2 == IF lengthSq(x0) = 0
              THEN normalize(<<z1[1], z1[2], z1[3] + 1>>)
              ELSE z1
        x1 == normalize(<<z2[3], 0, -z2[1]>>)
    IN [right |-> x1, up |-> crossVectors(z2, x1)]

\* ------------------------------------------------------------------- state
VARIABLES
    app,               \* which page runs: "ModelViewer" (main.js) or "App" (MayaControls)
    camera,            \* camera.position
    cameraTarget,      \* look-at target
    pivotPoint,        \* tumble pivot
    quaternion,        \* camera.quaternion, as set by the last lookAt
    isAltDown,         \* modifier flag
    activeControl,     \* "tumble", "pan", "zoom" or NULL
    prevMouse,         \* previous pointer position
    distanceToPivot,   \* snapshot taken at pointer-down
    zoomStartDistance, \* snapshot taken at pointer-down
    model,             \* this.model of the ModelViewer: NULL or the loaded model
    moves,             \* camera-moving handler runs so far
    last,              \* the event handled last and the mode it found: [op, was]
    models,            \* this.models: the loaded models, in loading order
    selectedObject,    \* this.selectedObject: NULL or an object
    position,          \* position.x of every object
    modelTransform,    \* this.modelTransform (its translate.x)
    undoStack,         \* this.undoStack, oldest entry first
    redoStack,         \* this.redoStack
    isUndoRedoAction,  \* this.isUndoRedoAction
    uiSteps,           \* selection, undo and framing operations run so far
    altKeyPressed,     \* this.altKeyPressed of the ModelViewer (init)
    clickedOnManipulator, \* this.clickedOnManipulator
    listeners,         \* the event listeners registered by MayaControls
    disposed,          \* MayaControls.dispose() has been called
    animating,         \* Viewport.animating
    frames,            \* animation frame callbacks of the Viewport not yet run
    renders,           \* calls of Viewport.render() so far
    stopped,           \* Viewport.stopAnimation() has been called
    loadingModels,     \* this.loadingModels: file URL -> status
    requests,          \* loader.load calls whose callback has not run yet
    alerts,            \* alert() calls so far: <<file URL, kind>>
    started            \* the loadModel calls so far: started[url] = [extension, isImport]

\* the objects, selection and undo history of the ModelViewer page
ui == <<models, selectedObject, position, modelTransform, undoStack, redoStack,
        isUndoRedoAction, uiSteps>>

\* the rest of the pages: the selection guard of the canvas click handler, the
\* listeners of MayaControls, the animation loop of the Viewport and the
\* file loads of the ModelViewer
controls == <<listeners, disposed>>

loop == <<animating, frames, renders, stopped>>

loads == <<loadingModels, requests, alerts, started>>

page == <<altKeyPressed, clickedOnManipulator, controls, loop, loads>>

vars == <<app, camera, cameraTarget, pivotPoint, quaternion, isAltDown, activeControl,
          prevMouse, distanceToPivot, zoomStartDistance, model, moves, last, ui, page>>

\* the rig proper: what a handler that "does nothing" must leave alone
rig == <<camera, cameraTarget, pivotPoint, quaternion, isAltDown, activeControl,
         prevMouse, distanceToPivot, zoomStartDistance>>

Modes == {"tumble", "pan", "zoom"}

\* MayaControls.isEnabled: set in the constructor, assigned nowhere else
isEnabled == TRUE

\* Math.PI in 1/Unit
Pi == 31416

\* A loaded model after processLoadedModel has scaled it, centred it in x and z
\* and put it on the ground: its bounding box.
ModelBox == [center |-> <<0, 2 * Scale, 0>>, size |-> <<2 * Scale, 4 * Scale, 2 * Scale>>]

\* zoomToFitAllModels: camera, target and pivot for a scene whose bounding box
\* is box; distance = |maxDim / sin(fov / 2)| * 1.2
zoomToFitAllModels(box) ==
    LET maxDim == Max(box.size[1], Max(box.size[2], box.size[3]))
        halfFov == RoundDiv(Fov * Pi, 360)
        distance == RoundDiv(Abs(RoundDiv(maxDim * Unit, Sin(halfFov))) * 12, 10)
        c == box.center
    IN [camera |-> <<c[1], c[2] + RoundDiv(distance, 4), c[3] + distance>>,
        cameraTarget |-> c,
        pivotPoint |-> c]

\* ModelViewer.init: camera at (0, 5, 10), target and pivot at the origin
InitViewer ==
    /\ app = "ModelViewer"
    /\ model = NULL
    /\ camera = <<0, 5 * Scale, 10 * Scale>>
    /\ cameraTarget = <<0, 0, 0>>
    /\ pivotPoint = <<0, 0, 0>>

\* ModelViewer after one model has been opened and framed, before any input
InitViewerLoaded ==
    /\ app = "ModelViewer"
    /\ model = "model"
    /\ camera = zoomToFitAllModels(ModelBox).camera
    /\ cameraTarget = zoomToFitAllModels(ModelBox).cameraTarget
    /\ pivotPoint = zoomToFitAllModels(ModelBox).pivotPoint

\* Viewport.setupCamera and the MayaControls constructor: camera at (0, 10, 20),
\* target at the origin, pivot copied from the target
InitApp ==
    /\ app = "App"
    /\ model = NULL
    /\ camera = <<0, 10 * Scale, 20 * Scale>>
    /\ cameraTarget = <<0, 0, 0>>
    /\ pivotPoint = <<0, 0, 0>>

\* the objects of an opened file: the model and a mesh inside it
Objects == {"model", "mesh"}

\* ModelViewer constructor and setupObjectSelection: nothing selected, empty
\* undo and redo stacks, modelTransform at its defaults; the model sits where
\* processLoadedModel put it, its mesh one unit off the model's origin
InitUi ==
    /\ models = IF model = NULL THEN <<>> ELSE <<"model">>
    /\ selectedObject = NULL
    /\ position = [o \in Objects |-> IF o = "mesh" THEN 1 ELSE 0]
    /\ modelTransform = 0
    /\ undoStack = <<>>
    /\ redoStack = <<>>
    /\ isUndoRedoAction = FALSE
    /\ uiSteps = 0

\* Function.prototype.bind returns a new function object at every call: a
\* bound method is named by the method and by the call that bound it
bind(method, site) == <<method, site>>

\* the listeners a MayaControls method registers or names: <<event type, function>>
Listeners(site) ==
    {<<"keydown", bind("onKeyDown", site)>>,
     <<"keyup", bind("onKeyUp", site)>>,
     <<"mousedown", bind("onMouseDown", site)>>,
     <<"mousemove", bind("onMouseMove", site)>>,
     <<"mouseup", bind("onMouseUp", site)>>,
     <<"click", bind("onClick", site)>>,
     <<"wheel", bind("onWheel", site)>>,
     <<"contextmenu", <<"preventDefault", site>>>>}

\* MayaControls.setupEventListeners: addEventListener of each bound method
setupEventListeners == Listeners("setupEventListeners")

\* an event of this type reaches a listener of MayaControls
Listening(type) == \E l \in listeners : l[1] = type

\* The pages before any file is opened and before dispose: the ModelViewer has
\* no load in flight; the App page has constructed its Viewport,
\* whose constructor ran animate() once (one render, one frame requested), and
\* its MayaControls, whose constructor registered the listeners.
InitPage ==
    /\ clickedOnManipulator = FALSE
    /\ listeners = IF app = "App" THEN setupEventListeners ELSE {}
    /\ disposed = FALSE
    /\ animating = (app = "App")
    /\ frames = IF app = "App" THEN 1 ELSE 0
    /\ renders = IF app = "App" THEN 1 ELSE 0
    /\ stopped = FALSE
    /\ loadingModels = [url \in {} |-> "loading"]
    /\ requests = {}
    /\ alerts = {}
    /\ started = <<>>

Init ==
    /\ (InitViewer \/ InitViewerLoaded \/ InitApp)
    /\ InitUi
    /\ InitPage
    /\ quaternion = lookAt(camera, cameraTarget)
    /\ isAltDown = FALSE
    /\ altKeyPressed = FALSE
    /\ activeControl = NULL
    /\ prevMouse = <<0, 0>>
    /\ distanceToPivot = 0
    /\ zoomStartDistance = 0
    /\ moves = 0
    /\ last = [op |-> "init", was |-> NULL]

\* ------------------------------------------------- mode-specific updates
\* Each returns the new camera position and look-at target.

\* the rotation of one tumble step, horizontal then vertical, applied to v
Rotated(v, deltaX, deltaY) ==
    LET horizontalQuat == setFromAxisAngle(<<0, Unit, 0>>, RoundDiv(-deltaX * Unit, RotateSpeedDen))
        verticalQuat == setFromAxisAngle(quaternion.right, RoundDiv(-deltaY * Unit, RotateSpeedDen))
    IN applyQuaternion(applyQuaternion(v, horizontalQuat), verticalQuat)

\* a tumble that orbits the look-at target instead of the pivot
TumbledAboutTarget(deltaX, deltaY) ==
    LET targetToCamera == subVectors(camera, cameraTarget)
        offset == multiplyScalar(normalize(Rotated(targetToCamera, deltaX, deltaY)),
                                 length(targetToCamera))
    IN [camera |-> add(cameraTarget, offset),
        cameraTarget |-> cameraTarget]

\* a tumble that recentres the view on the pivot
TumbledSnapsTarget(deltaX, deltaY) ==
    LET pivotToCamera == subVectors(camera, pivotPoint)
        offset == multiplyScalar(normalize(Rotated(pivotToCamera, deltaX, deltaY)),
                                 length(pivotToCamera))
    IN [camera |-> add(pivotPoint, offset),
        cameraTarget |-> pivotPoint]

\* a tumble that carries the target along with the camera's displacement
TumbledTargetFollowsCamera(deltaX, deltaY) ==
    LET pivotToCamera == subVectors(camera, pivotPoint)
        offset == multiplyScalar(normalize(Rotated(pivotToCamera, deltaX, deltaY)),
                                 length(pivotToCamera))
    IN [camera |-> add(pivotPoint, offset),
        cameraTarget |-> add(cameraTarget, subVectors(add(pivotPoint, offset), camera))]

\* a tumble that turns the target offset by the horizontal rotation only
TumbledTargetYawOnly(deltaX, deltaY) ==
    LET pivotToCamera == subVectors(camera, pivotPoint)
        offset == multiplyScalar(normalize(Rotated(pivotToCamera, deltaX, deltaY)),
                                 length(pivotToCamera))
        horizontalQuat == setFromAxisAngle(<<0, Unit, 0>>, RoundDiv(-deltaX * Unit, RotateSpeedDen))
    IN [camera |-> add(pivotPoint, offset),
        cameraTarget |-> subVectors(pivotPoint,
                                    applyQuaternion(subVectors(pivotPoint, cameraTarget),
                                                    horizontalQuat))]

\* tumble: rotate (camera - pivot) and (pivot - target) by the same two
\* quaternions, restore the offset length
Tumbled(deltaX, deltaY) ==
    LET pivotToCamera == subVectors(camera, pivotPoint)
        originalDistance == length(pivotToCamera)
        horizontalQuat == setFromAxisAngle(<<0, Unit, 0>>, RoundDiv(-deltaX * Unit, RotateSpeedDen))
        cameraRight == quaternion.right
        verticalQuat == setFromAxisAngle(cameraRight, RoundDiv(-deltaY * Unit, RotateSpeedDen))
        rotated == applyQuaternion(applyQuaternion(pivotToCamera, horizontalQuat), verticalQuat)
        offset == multiplyScalar(normalize(rotated), originalDistance)
        targetToPivot == applyQuaternion(
                             applyQuaternion(subVectors(pivotPoint, cameraTarget), horizontalQuat),
                             verticalQuat)
    IN [camera |-> add(pivotPoint, offset),
        cameraTarget |-> subVectors(pivotPoint, targetToPivot)]

\* a pan that forgets to carry the look-at target along
PannedCameraOnly(deltaX, deltaY) ==
    LET sx == RoundDiv(-deltaX * distanceToPivot, PanSpeedDen)
        sy == RoundDiv(deltaY * distanceToPivot, PanSpeedDen)
        movement == <<RoundDiv(quaternion.right[1] * sx + quaternion.up[1] * sy, Unit),
                      RoundDiv(quaternion.right[2] * sx + quaternion.up[2] * sy, Unit),
                      RoundDiv(quaternion.right[3] * sx + quaternion.up[3] * sy, Unit)>>
    IN [camera |-> add(camera, movement),
        cameraTarget |-> cameraTarget]

\* pan: translate camera and target by the same vector of the view plane
Panned(deltaX, deltaY) ==
    LET sx == RoundDiv(-deltaX * distanceToPivot, PanSpeedDen)
        sy == RoundDiv(deltaY * distanceToPivot, PanSpeedDen)
        movement == <<RoundDiv(quaternion.right[1] * sx + quaternion.up[1] * sy, Unit),
                      RoundDiv(quaternion.right[2] * sx + quaternion.up[2] * sy, Unit),
                      RoundDiv(quaternion.right[3] * sx + quaternion.up[3] * sy, Unit)>>
    IN [camera |-> add(camera, movement),
        cameraTarget |-> add(cameraTarget, movement)]

\* a zoom that dollies toward the pivot instead of the look-at target
ZoomedTowardPivot(deltaX) ==
    LET zoomDirection == normalize(subVectors(pivotPoint, camera))
        currentDistance == distanceTo(camera, cameraTarget)
        zoomAmount == RoundDiv(deltaX * BaseZoomSpeedNum * Max(currentDistance, MinAdaptiveDistance),
                               BaseZoomSpeedDen)
    IN [camera |-> addScaledVector(camera, zoomDirection, zoomAmount),
        cameraTarget |-> cameraTarget]

\* main.js zoom branch: dolly toward the target, speed from the current distance
Zoomed(deltaX) ==
    LET zoomDirection == normalize(subVectors(cameraTarget, camera))
        currentDistance == distanceTo(camera, cameraTarget)
        zoomAmount == RoundDiv(deltaX * BaseZoomSpeedNum * Max(currentDistance, MinAdaptiveDistance),
                               BaseZoomSpeedDen)
    IN [camera |-> addScaledVector(camera, zoomDirection, zoomAmount),
        cameraTarget |-> cameraTarget]

\* a wheel zoom that is ignored while a drag mode is active
WheeledWhenIdle(deltaY) ==
    LET currentDistance == distanceTo(camera, cameraTarget)
        zoomFactor == RoundDiv(BaseZoomSpeedNum * Max(currentDistance, MinAdaptiveDistance)
                                 * Sign(deltaY) * Min(Abs(deltaY), WheelClamp),
                               BaseZoomSpeedDen)
        zoomDirection == normalize(subVectors(cameraTarget, camera))
    IN [camera |-> IF activeControl # NULL THEN camera
                   ELSE addScaledVector(camera, zoomDirection, zoomFactor),
        cameraTarget |-> cameraTarget]

\* main.js wheel handler: dolly toward the target, delta clamped to 50
Wheeled(deltaY) ==
    LET currentDistance == distanceTo(camera, cameraTarget)
        zoomFactor == RoundDiv(BaseZoomSpeedNum * Max(currentDistance, MinAdaptiveDistance)
                                 * Sign(deltaY) * Min(Abs(deltaY), WheelClamp),
                               BaseZoomSpeedDen)
        zoomDirection == normalize(subVectors(cameraTarget, camera))
    IN [camera |-> addScaledVector(camera, zoomDirection, zoomFactor),
        cameraTarget |-> cameraTarget]

handleTumble(deltaX, deltaY) == Tumbled(deltaX, deltaY)

handlePan(deltaX, deltaY) == Panned(deltaX, deltaY)

\* MayaControls.handleZoom: speed from the distance snapshot of pointer-down
handleZoom(deltaX) ==
    LET zoomDirection == normalize(subVectors(cameraTarget, camera))
        zoomAmount == RoundDiv(deltaX * zoomStartDistance, ZoomSpeedDen)
    IN [camera |-> addScaledVector(camera, zoomDirection, zoomAmount),
        cameraTarget |-> cameraTarget]

\* a button table with the auxiliary and secondary buttons exchanged
ControlForButtonSwapped(button) ==
    IF button = 0 THEN "tumble"
    ELSE IF button = 1 THEN "zoom"
    ELSE IF button = 2 THEN "pan"
    ELSE activeControl

\* the button-to-mode table of both pointer-down handlers
ControlForButton(button) ==
    IF button = 0 THEN "tumble"
    ELSE IF button = 1 THEN "pan"
    ELSE IF button = 2 THEN "zoom"
    ELSE activeControl

\* MayaControls.onWheel: dolly toward the target, no clamp
onWheelDolly(deltaY) ==
    LET distance == distanceTo(camera, cameraTarget)
        zoomDirection == normalize(subVectors(cameraTarget, camera))
    IN [camera |-> addScaledVector(camera, zoomDirection,
                                   RoundDiv(deltaY * distance, WheelZoomSpeedDen)),
        cameraTarget |-> cameraTarget]

\* --------------------------------------------------------------- guards
\* a pointer-down handler that does not look at the modifier
mousedownGateOpen == TRUE

\* pointer-down: if (isAltDown) / if (!this.isEnabled || !this.isAltDown) return
mousedownGate == isAltDown

\* a MayaControls pointer-down handler that does not look at the modifier
onMouseDownGateEnabledOnly == isEnabled

onMouseDownGate == isEnabled /\ isAltDown

\* a pointer-move handler that checks the modifier only
mousemoveGateAltOnly == isAltDown

\* pointer-move: if (!isAltDown || !activeControl) return
mousemoveGate == isAltDown /\ activeControl # NULL

onMouseMoveGate == isEnabled /\ isAltDown /\ activeControl # NULL

\* the drag dispatch of the pointer-move handlers
Dragged(deltaX, deltaY) ==
    IF activeControl = "tumble" THEN Tumbled(deltaX, deltaY)
    ELSE IF activeControl = "pan" THEN Panned(deltaX, deltaY)
    ELSE IF activeControl = "zoom" THEN Zoomed(deltaX)
    ELSE [camera |-> camera, cameraTarget |-> cameraTarget]

onMouseMoveDispatch(deltaX, deltaY) ==
    IF activeControl = "tumble" THEN handleTumble(deltaX, deltaY)
    ELSE IF activeControl = "pan" THEN handlePan(deltaX, deltaY)
    ELSE IF activeControl = "zoom" THEN handleZoom(deltaX)
    ELSE [camera |-> camera, cameraTarget |-> cameraTarget]

\* handlers that forget to clear the mode
keyupKeepsControl == activeControl

mouseupKeepsControl == activeControl

\* what Alt keyup and pointer-up leave in activeControl
keyupControl == NULL

mouseupControl == NULL

\* a pivot change that recentres the view on the new pivot
PivotSetRecentres(p) == [pivotPoint |-> p, cameraTarget |-> p]

\* the pivot a successful pick or setPivotPoint(p) leaves
PivotSet(p) == [pivotPoint |-> p, cameraTarget |-> cameraTarget]


\* the record of an event: its kind and the active mode when it arrived
Event(op) == [op |-> op, was |-> activeControl]

\* The handlers below carry the rig state.  What they also write and no rig
\* operation reads is left out: the canvas cursor style, the pivot
\* indicator's visibility (isCtrlDown), the transform gizmo's enabled flag,
\* and the scratch pointer position mouse, which each pointer-move overwrites
\* before reading.

\* ------------------------------------------- ModelViewer (main.js) handlers
keydown(key) ==
    /\ app = "ModelViewer"
    /\ isAltDown' = IF key = "Alt" THEN TRUE ELSE isAltDown
    /\ altKeyPressed' = IF key = "Alt" THEN TRUE ELSE altKeyPressed
    /\ last' = Event("keydown")
    /\ UNCHANGED <<clickedOnManipulator, controls, loop, loads, ui, app, camera, cameraTarget, pivotPoint, quaternion, activeControl,
                   prevMouse, distanceToPivot, zoomStartDistance, model, moves>>

keyup(key) ==
    /\ app = "ModelViewer"
    /\ isAltDown' = IF key = "Alt" THEN FALSE ELSE isAltDown
    /\ activeControl' = IF key = "Alt" THEN keyupControl ELSE activeControl
    /\ altKeyPressed' = IF key = "Alt" THEN FALSE ELSE altKeyPressed
    /\ last' = Event("keyup")
    /\ UNCHANGED <<clickedOnManipulator, controls, loop, loads, ui, app, camera, cameraTarget, pivotPoint, quaternion,
                   prevMouse, distanceToPivot, zoomStartDistance, model, moves>>

\* this.mousePressed: the pointer-down and pointer-up listeners of init are
\* plain functions, whose this is the canvas, so the field of the ModelViewer
\* keeps the value the constructor gave it
mousePressed == FALSE

\* what the pick ray of a canvas click selects: the model that holds the mesh
\* it hits, nothing when it hits no mesh of a model
Picked(hit) ==
    IF hit = NoHit \/ Len(models) = 0 THEN {NULL}
    ELSE {models[i] : i \in 1 .. Len(models)}

\* the guards of the selection listener: it returns while Alt is held, and
\* after a drag of the manipulator
clickSelects == ~altKeyPressed /\ ~(~mousePressed /\ clickedOnManipulator)

\* A click on the canvas runs two listeners: the selection listener of init
\* (select the model under the pointer, deselect on empty space) and the
\* listener of setupMayaControls (Ctrl-click picks a new pivot on the model).
click(button, ctrlKey, hit) ==
    /\ app = "ModelViewer"
    /\ \E picked \in Picked(hit) :
          selectedObject' = IF clickSelects THEN picked ELSE selectedObject
    /\ clickedOnManipulator' = (clickedOnManipulator /\ (altKeyPressed \/ mousePressed))
    /\ IF button = 0 /\ ctrlKey /\ model # NULL /\ hit # NoHit
       THEN /\ pivotPoint' = PivotSet(hit).pivotPoint
            /\ cameraTarget' = PivotSet(hit).cameraTarget
       ELSE UNCHANGED <<pivotPoint, cameraTarget>>
    /\ last' = Event("click")
    /\ UNCHANGED <<altKeyPressed, controls, loop, loads, models, position, modelTransform,
                   undoStack, redoStack, isUndoRedoAction, uiSteps>>
    /\ UNCHANGED <<app, camera, quaternion, isAltDown, activeControl,
                   prevMouse, distanceToPivot, zoomStartDistance, model, moves>>

mousedown(button, pos) ==
    /\ app = "ModelViewer"
    /\ IF mousedownGate
       THEN /\ prevMouse' = pos
            /\ distanceToPivot' = distanceTo(camera, pivotPoint)
            /\ zoomStartDistance' = distanceTo(camera, pivotPoint)
            /\ activeControl' = ControlForButton(button)
       ELSE UNCHANGED <<prevMouse, distanceToPivot, zoomStartDistance, activeControl>>
    /\ last' = Event("mousedown")
    /\ UNCHANGED <<page, ui, app, camera, cameraTarget, pivotPoint, quaternion, isAltDown, model, moves>>

mousemove(pos) ==
    /\ app = "ModelViewer"
    /\ IF mousemoveGate
       THEN /\ moves < MaxMoves
            /\ LET r == Dragged(pos[1] - prevMouse[1], pos[2] - prevMouse[2])
               IN /\ camera' = r.camera
                  /\ cameraTarget' = r.cameraTarget
            /\ prevMouse' = pos
            /\ moves' = moves + 1
       ELSE UNCHANGED <<camera, cameraTarget, prevMouse, moves>>
    /\ last' = Event("mousemove")
    /\ UNCHANGED <<page, ui, app, pivotPoint, quaternion, isAltDown, activeControl,
                   distanceToPivot, zoomStartDistance, model>>

mouseup ==
    /\ app = "ModelViewer"
    /\ activeControl' = mouseupControl
    /\ last' = Event("mouseup")
    /\ UNCHANGED <<page, ui, app, camera, cameraTarget, pivotPoint, quaternion, isAltDown,
                   prevMouse, distanceToPivot, zoomStartDistance, model, moves>>

wheel(deltaY) ==
    /\ app = "ModelViewer"
    /\ moves < MaxMoves
    /\ camera' = Wheeled(deltaY).camera
    /\ cameraTarget' = Wheeled(deltaY).cameraTarget
    /\ moves' = moves + 1
    /\ last' = Event("wheel")
    /\ UNCHANGED <<page, ui, app, pivotPoint, quaternion, isAltDown, activeControl,
                   prevMouse, distanceToPivot, zoomStartDistance, model>>

\* the render tick: this.camera.lookAt(this.cameraTarget)
animate ==
    /\ app = "ModelViewer"
    /\ quaternion' = lookAt(camera, cameraTarget)
    /\ last' = Event("animate")
    /\ UNCHANGED <<page, ui, app, camera, cameraTarget, pivotPoint, isAltDown, activeControl,
                   prevMouse, distanceToPivot, zoomStartDistance, model, moves>>

\* ----------------------------------------------- MayaControls (App) methods
onKeyDown(key) ==
    /\ app = "App"
    /\ Listening("keydown")
    /\ isAltDown' = IF key = "Alt" THEN TRUE ELSE isAltDown
    /\ last' = Event("keydown")
    /\ UNCHANGED <<page, ui, app, camera, cameraTarget, pivotPoint, quaternion, activeControl,
                   prevMouse, distanceToPivot, zoomStartDistance, model, moves>>

onKeyUp(key) ==
    /\ app = "App"
    /\ Listening("keyup")
    /\ isAltDown' = IF key = "Alt" THEN FALSE ELSE isAltDown
    /\ activeControl' = IF key = "Alt" THEN keyupControl ELSE activeControl
    /\ last' = Event("keyup")
    /\ UNCHANGED <<page, ui, app, camera, cameraTarget, pivotPoint, quaternion,
                   prevMouse, distanceToPivot, zoomStartDistance, model, moves>>

onMouseDown(button, pos) ==
    /\ app = "App"
    /\ Listening("mousedown")
    /\ IF onMouseDownGate
       THEN /\ prevMouse' = pos
            /\ distanceToPivot' = distanceTo(camera, pivotPoint)
            /\ zoomStartDistance' = distanceTo(camera, pivotPoint)
            /\ activeControl' = ControlForButton(button)
       ELSE UNCHANGED <<prevMouse, distanceToPivot, zoomStartDistance, activeControl>>
    /\ last' = Event("mousedown")
    /\ UNCHANGED <<page, ui, app, camera, cameraTarget, pivotPoint, quaternion, isAltDown, model, moves>>

onMouseMove(pos) ==
    /\ app = "App"
    /\ Listening("mousemove")
    /\ IF onMouseMoveGate
       THEN /\ moves < MaxMoves
            /\ LET r == onMouseMoveDispatch(pos[1] - prevMouse[1], pos[2] - prevMouse[2])
               IN /\ camera' = r.camera
                  /\ cameraTarget' = r.cameraTarget
            /\ prevMouse' = pos
            /\ moves' = moves + 1
       ELSE UNCHANGED <<camera, cameraTarget, prevMouse, moves>>
    /\ last' = Event("mousemove")
    /\ UNCHANGED <<page, ui, app, pivotPoint, quaternion, isAltDown, activeControl,
                   distanceToPivot, zoomStartDistance, model>>

onMouseUp ==
    /\ app = "App"
    /\ Listening("mouseup")
    /\ activeControl' = mouseupControl
    /\ last' = Event("mouseup")
    /\ UNCHANGED <<page, ui, app, camera, cameraTarget, pivotPoint, quaternion, isAltDown,
                   prevMouse, distanceToPivot, zoomStartDistance, model, moves>>

onWheel(deltaY) ==
    /\ app = "App"
    /\ Listening("wheel")
    /\ IF isEnabled
       THEN /\ moves < MaxMoves
            /\ camera' = onWheelDolly(deltaY).camera
            /\ cameraTarget' = onWheelDolly(deltaY).cameraTarget
            /\ moves' = moves + 1
       ELSE UNCHANGED <<camera, cameraTarget, moves>>
    /\ last' = Event("wheel")
    /\ UNCHANGED <<page, ui, app, pivotPoint, quaternion, isAltDown, activeControl,
                   prevMouse, distanceToPivot, zoomStartDistance, model>>

\* plain left click on the canvas: pick a new pivot on a scene mesh
onClick(button, hit) ==
    /\ app = "App"
    /\ Listening("click")
    /\ IF isEnabled /\ ~isAltDown /\ button = 0 /\ hit # NoHit
       THEN /\ pivotPoint' = PivotSet(hit).pivotPoint
            /\ cameraTarget' = PivotSet(hit).cameraTarget
       ELSE UNCHANGED <<pivotPoint, cameraTarget>>
    /\ last' = Event("click")
    /\ UNCHANGED <<page, ui, app, camera, quaternion, isAltDown, activeControl,
                   prevMouse, distanceToPivot, zoomStartDistance, model, moves>>

setPivotPoint(point) ==
    /\ app = "App"
    /\ pivotPoint' = PivotSet(point).pivotPoint
    /\ cameraTarget' = PivotSet(point).cameraTarget
    /\ last' = Event("setPivotPoint")
    /\ UNCHANGED <<page, ui, app, camera, quaternion, isAltDown, activeControl,
                   prevMouse, distanceToPivot, zoomStartDistance, model, moves>>

\* MayaControls.update: this.camera.lookAt(this.cameraTarget)
update ==
    /\ app = "App"
    /\ quaternion' = lookAt(camera, cameraTarget)
    /\ last' = Event("update")
    /\ UNCHANGED <<page, ui, app, camera, cameraTarget, pivotPoint, isAltDown, activeControl,
                   prevMouse, distanceToPivot, zoomStartDistance, model, moves>>

Next ==
    \/ \E key \in Keys : keydown(key)
    \/ \E key \in Keys : keyup(key)
    \/ \E c \in Clicks : click(c[1], c[2], c[3])
    \/ \E button \in Buttons, pos \in MousePos : mousedown(button, pos)
    \/ \E pos \in MousePos : mousemove(pos)
    \/ mouseup
    \/ \E deltaY \in WheelDeltas : wheel(deltaY)
    \/ animate
    \/ \E key \in Keys : onKeyDown(key)
    \/ \E key \in Keys : onKeyUp(key)
    \/ \E button \in Buttons, pos \in MousePos : onMouseDown(button, pos)
    \/ \E pos \in MousePos : onMouseMove(pos)
    \/ onMouseUp
    \/ \E deltaY \in WheelDeltas : onWheel(deltaY)
    \/ \E c \in Clicks : onClick(c[1], c[3])
    \/ \E point \in PivotArgs : setPivotPoint(point)
    \/ update

Spec == Init /\ [][Next]_vars

\* ------------------------------------------------------------- properties
\* c lies on the line through a and t, to within the rounding of one position
\* unit per coordinate of the step c - a
OnLine(a, t, c) ==
    LET m == subVectors(c, a)
        v == subVectors(t, a)
    IN \A i, j \in 1 .. 3 :
           Abs(m[i] * v[j] - m[j] * v[i]) <= Abs(v[i]) + Abs(v[j])

\* the step handles an event of this kind
Handles(op) == last'.op = op

\* C1: while a drag mode is active, a second pointer-down with Alt held leaves
\* the active mode as it was.
C1_ModeExclusivity ==
    [][(Handles("mousedown") /\ isAltDown /\ activeControl # NULL)
          => activeControl' = activeControl]_vars

\* C2: Alt keyup forces the rig to idle from any mode; while idle a
\* pointer-move changes neither camera, target nor pivot; and the rig leaves
\* idle only by a pointer-down with Alt held.
C2_AltReleaseForcesIdle ==
    [][/\ (Handles("keyup") /\ (keyup("Alt") \/ onKeyUp("Alt")))
             => (activeControl' = NULL /\ ~isAltDown')
       /\ (Handles("mousemove") /\ activeControl = NULL)
             => UNCHANGED <<camera, cameraTarget, pivotPoint>>
       /\ (activeControl = NULL /\ activeControl' # NULL)
             => (Handles("mousedown") /\ isAltDown)]_vars

\* C2 witness: Alt was released in the middle of a drag and the rig is idle.
C2_Witness ==
    last.op = "keyup" /\ last.was # NULL /\ activeControl = NULL /\ ~isAltDown /\ moves > 0

\* C3: a pointer-move received while no mode is active changes neither camera,
\* target, pivot nor the stored previous pointer position.
C3_IdleMoveIsNoOp ==
    [][(Handles("mousemove") /\ activeControl = NULL)
          => UNCHANGED <<camera, cameraTarget, pivotPoint, prevMouse>>]_vars

\* C3 witness: a pointer-move arrived with Alt held and no mode active, at a
\* position other than the stored one.
C3_Witness ==
    last.op = "mousemove" /\ last.was = NULL /\ isAltDown /\ prevMouse = <<0, 0>>
    /\ distanceToPivot > 0

\* C4: pointer-up clears the mode in every state, never moves camera, target
\* or pivot, and a pointer-up that follows a pointer-up changes nothing.
C4_MouseUpClearsIdempotent ==
    [][Handles("mouseup")
          => /\ activeControl' = NULL
             /\ UNCHANGED <<camera, cameraTarget, pivotPoint>>
             /\ (last.op = "mouseup" => UNCHANGED rig)]_vars

\* C4 witness: a pointer-up ended an active drag.
C4_Witness ==
    last.op = "mouseup" /\ last.was # NULL /\ activeControl = NULL /\ isAltDown

\* C5: from idle with Alt held, pointer-down with button b at p sets the mode
\* from b (0 tumble, 1 pan, 2 zoom, any other button leaves idle), stores p as
\* the previous pointer position and snapshots |camera - pivot|.
C5_BeginDrag ==
    [][\A b \in Buttons, p \in MousePos :
          (Handles("mousedown") /\ isAltDown /\ activeControl = NULL
             /\ (mousedown(b, p) \/ onMouseDown(b, p)))
             => /\ activeControl' = CASE b = 0 -> "tumble"
                                      [] b = 1 -> "pan"
                                      [] b = 2 -> "zoom"
                                      [] OTHER -> NULL
                /\ prevMouse' = p
                /\ distanceToPivot' = Sqrt(lengthSq(subVectors(camera, pivotPoint)))]_vars

\* C5 witness: a pan drag began from idle at a position other than the origin,
\* with the camera away from the pivot.
C5_Witness ==
    last.op = "mousedown" /\ last.was = NULL /\ activeControl = "pan"
    /\ prevMouse # <<0, 0>> /\ distanceToPivot > 0

\* C6: a pointer-down without Alt changes nothing of the rig.
C6_NoAltNoDrag ==
    [][(Handles("mousedown") /\ ~isAltDown)
          => UNCHANGED <<activeControl, prevMouse, distanceToPivot, zoomStartDistance,
                         camera, cameraTarget, pivotPoint>>]_vars

\* C6 witness: a pointer-down arrived without Alt.
C6_Witness ==
    last.op = "mousedown" /\ ~isAltDown /\ activeControl = NULL

\* C7: setting the pivot to p (setPivotPoint(p), or a pivot click that hits
\* geometry at p) makes the pivot p and leaves camera, target and mode alone.
C7_SetPivot ==
    [][\A p \in HitPoints :
          (/\ last'.op \in {"click", "setPivotPoint"}
           /\ \/ setPivotPoint(p)
              \/ (~isAltDown /\ onClick(0, p))
              \/ (model # NULL /\ click(0, TRUE, p)))
             => (pivotPoint' = p /\ UNCHANGED <<camera, cameraTarget, activeControl>>)]_vars

\* C7 witness: a pick moved the pivot off the look-at target.
C7_Witness ==
    last.op \in {"click", "setPivotPoint"} /\ pivotPoint \in HitPoints
    /\ pivotPoint # cameraTarget

\* C8: a wheel event with non-zero delta acts in every rig state: it moves the
\* camera along the line to the target when the two differ, and leaves mode,
\* previous pointer position, target and pivot alone.
C8_WheelUnconditional ==
    [][\A d \in WheelDeltas \ {0} :
          (Handles("wheel") /\ (wheel(d) \/ onWheel(d)))
             => /\ UNCHANGED <<activeControl, prevMouse, cameraTarget, pivotPoint>>
                /\ camera # cameraTarget
                      => (camera' # camera /\ OnLine(camera, cameraTarget, camera'))]_vars

\* C8 witness: a wheel event arrived in the middle of a drag.
C8_Witness ==
    last.op = "wheel" /\ last.was # NULL /\ activeControl # NULL /\ isAltDown /\ moves > 0

\* C9: a pan step leaves the pivot alone and translates camera and target by
\* the same vector.
C9_PanPreservesOffset ==
    [][(Handles("mousemove") /\ isAltDown /\ activeControl = "pan")
          => /\ pivotPoint' = pivotPoint
             /\ subVectors(camera', cameraTarget') = subVectors(camera, cameraTarget)]_vars

\* C9 witness: a pan step has moved the camera while the pivot is off the target.
C9_Witness ==
    last.op = "mousemove" /\ last.was = "pan" /\ moves > 0
    /\ prevMouse # <<0, 0>> /\ pivotPoint \in HitPoints

\* C10: a drag-zoom step and a wheel step leave target and pivot alone and put
\* the camera on the line through its old position and the target.
C10_ZoomIsDolly ==
    [][((Handles("mousemove") /\ isAltDown /\ activeControl = "zoom") \/ Handles("wheel"))
          => /\ UNCHANGED <<cameraTarget, pivotPoint>>
             /\ OnLine(camera, cameraTarget, camera')]_vars

\* C10 witness: a drag-zoom step has run with the pivot off the target.
C10_Witness ==
    last.op = "mousemove" /\ last.was = "zoom" /\ moves > 0
    /\ prevMouse # <<0, 0>> /\ pivotPoint \in HitPoints

\* ------------------------------------------------- zoom steps in sequence
\* A second specification follows a zoom drag and wheel events over several
\* steps.  It starts where a pointer-down with Alt held and the right button
\* leaves the rig: mode "zoom", the pointer at the origin of the canvas, both
\* distance snapshots taken.

\* steps the specifications of step sequences take beyond MaxMoves
ExtraSteps == 2

\* pointer positions of a horizontal zoom drag
ZoomPos == {<<0, 0>>, <<250, 0>>, <<500, 0>>}

\* wheel deltas: one notch of a mouse wheel either way
ZoomWheelDeltas == {-100, 100}

\* camera positions close to the look-at target, as earlier zoom steps of the
\* ModelViewer leave them (0.3 and 0.12 world units from the origin)
NearCameras == {<<0, 13, 27>>, <<0, 5, 11>>}

InitZoom ==
    /\ \/ InitViewer
       \/ InitApp
       \/ /\ app = "ModelViewer"
          /\ model = NULL
          /\ camera \in NearCameras
          /\ cameraTarget = <<0, 0, 0>>
          /\ pivotPoint = <<0, 0, 0>>
    /\ quaternion = lookAt(camera, cameraTarget)
    /\ isAltDown = TRUE
    /\ altKeyPressed = (app = "ModelViewer")
    /\ activeControl = "zoom"
    /\ prevMouse = <<0, 0>>
    /\ distanceToPivot = distanceTo(camera, pivotPoint)
    /\ zoomStartDistance = distanceTo(camera, pivotPoint)
    /\ InitUi
    /\ InitPage
    /\ moves = -ExtraSteps
    /\ last = [op |-> "mousedown", was |-> NULL]

NextZoom ==
    \/ \E pos \in ZoomPos : mousemove(pos)
    \/ \E deltaY \in ZoomWheelDeltas : wheel(deltaY)
    \/ \E pos \in ZoomPos : onMouseMove(pos)
    \/ \E deltaY \in ZoomWheelDeltas : onWheel(deltaY)

ZoomSpec == InitZoom /\ [][NextZoom]_vars

\* c2 lies beyond t as seen from c
FarSide(c, t, c2) == dot(subVectors(c2, t), subVectors(c, t)) < 0

\* C11: a wheel event with positive delta, with the camera off the target,
\* leaves the camera strictly closer to the target and never on its far side.
C11_WheelFloor ==
    [][(Handles("wheel") /\ camera # cameraTarget
          /\ \E d \in ZoomWheelDeltas : d > 0 /\ (wheel(d) \/ onWheel(d)))
          => /\ lengthSq(subVectors(camera', cameraTarget))
                   < lengthSq(subVectors(camera, cameraTarget))
             /\ ~FarSide(camera, cameraTarget, camera')]_vars

\* the drag-zoom step of the page that is loaded
ZoomStep(deltaX) == IF app = "ModelViewer" THEN Zoomed(deltaX) ELSE handleZoom(deltaX)

\* C12: a drag-zoom step with deltaX > 0, with the camera off the target, never
\* puts the camera on the far side of the target, and a larger deltaX from the
\* same state leaves the camera no farther from the target.
C12_DragZoomMonotone ==
    [][(Handles("mousemove") /\ isAltDown /\ activeControl = "zoom"
          /\ camera # cameraTarget /\ prevMouse'[1] > prevMouse[1])
          => /\ ~FarSide(camera, cameraTarget, camera')
             /\ \A pos \in ZoomPos :
                   pos[1] > prevMouse'[1]
                      => lengthSq(subVectors(ZoomStep(pos[1] - prevMouse[1]).camera, cameraTarget))
                            <= lengthSq(subVectors(camera', cameraTarget))]_vars

\* ----------------------------------------------- tumble steps in sequence
\* A third specification follows a tumble drag over several steps.  It starts
\* where a pointer-down with Alt held and the left button leaves the rig, from
\* the views the pages open with, with the pivot on the target or moved off
\* it by a pick, from a camera that sits on the pivot, and from a camera far
\* from the pivot.

\* pointer positions of a tumble drag; a move to the stored position is a step
\* with deltaX = deltaY = 0
TumblePos == {<<0, 0>>, <<100, 80>>, <<0, 80>>}

\* the opening camera of the App page dollied out to six times its distance
FarCamera == <<0, 60 * Scale, 120 * Scale>>

InitTumble ==
    /\ \/ InitViewer
       \/ InitApp
       \/ /\ app = "ModelViewer"
          /\ model = "model"
          /\ camera = zoomToFitAllModels(ModelBox).camera
          /\ cameraTarget = zoomToFitAllModels(ModelBox).cameraTarget
          /\ pivotPoint \in HitPoints
       \/ /\ app = "App"
          /\ model = NULL
          /\ camera = <<0, 10 * Scale, 20 * Scale>>
          /\ cameraTarget = <<0, 0, 0>>
          /\ pivotPoint \in PivotArgs \cup {camera}
       \/ /\ app = "App"
          /\ model = NULL
          /\ camera = FarCamera
          /\ cameraTarget = <<0, 0, 0>>
          /\ pivotPoint = <<0, 0, 0>>
    /\ quaternion = lookAt(camera, cameraTarget)
    /\ isAltDown = TRUE
    /\ altKeyPressed = (app = "ModelViewer")
    /\ activeControl = "tumble"
    /\ prevMouse = <<0, 0>>
    /\ distanceToPivot = distanceTo(camera, pivotPoint)
    /\ zoomStartDistance = distanceTo(camera, pivotPoint)
    /\ InitUi
    /\ InitPage
    /\ moves = -ExtraSteps
    /\ last = [op |-> "mousedown", was |-> NULL]

NextTumble ==
    \/ \E pos \in TumblePos : mousemove(pos)
    \/ animate
    \/ \E pos \in TumblePos : onMouseMove(pos)
    \/ update

TumbleSpec == InitTumble /\ [][NextTumble]_vars

\* lengths that agree to within the rounding of the fixed-point rotation
Near(a, b) == Abs(a - b) <= 2

\* the step is a tumble step of a drag
TumbleStep == Handles("mousemove") /\ isAltDown /\ activeControl = "tumble"

\* C13: a tumble step leaves the pivot where it is and |camera - pivot| at its
\* value, whatever deltaX and deltaY and wherever the pivot.
C13_TumbleKeepsDistance ==
    [][TumbleStep
          => /\ pivotPoint' = pivotPoint
             /\ Near(distanceTo(camera', pivotPoint'), distanceTo(camera, pivotPoint))]_vars

\* C13 witness: a second or later tumble step has run about a pivot that is off
\* the target.
C13_Witness ==
    /\ last.op = "mousemove" /\ last.was = "tumble" /\ moves > 1 - ExtraSteps
    /\ prevMouse # <<0, 0>> /\ pivotPoint # cameraTarget /\ camera # pivotPoint

C15_OffsetConstant ==
    [][TumbleStep
          => subVectors(pivotPoint', cameraTarget') = subVectors(pivotPoint, cameraTarget)]_vars

\* C15 as amended: a tumble step leaves the length |pivot - target| as it was
\* (the vector itself turns with the camera), and a zero offset stays zero.
C15_OffsetLengthConstant ==
    [][TumbleStep
          => /\ Near(distanceTo(pivotPoint', cameraTarget'), distanceTo(pivotPoint, cameraTarget))
             /\ (pivotPoint = cameraTarget => pivotPoint' = cameraTarget')]_vars

\* C15 witness: the first tumble step of a drag, with non-zero deltas, about a
\* picked pivot.
C15_Witness ==
    /\ last.op = "mousemove" /\ last.was = "tumble" /\ moves = 1 - ExtraSteps
    /\ prevMouse = <<100, 80>> /\ pivotPoint \in HitPoints

\* C16: a tumble step turns camera and target about the pivot as one rigid
\* body: |target - pivot| and |camera - target| keep their values, a target on
\* the pivot stays on it, and a target off the pivot moves when the step turns
\* horizontally and the offset is not vertical.
C16_TumbleRigid ==
    [][TumbleStep
          => /\ Near(distanceTo(cameraTarget', pivotPoint), distanceTo(cameraTarget, pivotPoint))
             /\ Near(distanceTo(camera', cameraTarget'), distanceTo(camera, cameraTarget))
             /\ (cameraTarget = pivotPoint => cameraTarget' = cameraTarget)
             /\ LET d == subVectors(pivotPoint, cameraTarget)
                IN (prevMouse'[1] # prevMouse[1] /\ (d[1] # 0 \/ d[3] # 0))
                      => cameraTarget' # cameraTarget]_vars

\* C16 witness: a tumble step with non-zero deltas has moved a target that is
\* off the pivot.
C16_Witness ==
    /\ last.op = "mousemove" /\ last.was = "tumble" /\ prevMouse = <<100, 80>>
    /\ cameraTarget \notin {pivotPoint, <<0, 0, 0>>, <<0, 2 * Scale, 0>>}

\* ------------------------------------- objects, selection, undo and redo
\* The ModelViewer's selection and undo history, as operators on a record u of
\* the fields they read and write.

\* operations on objects and history per behaviour
MaxUiSteps == 3

\* this.maxUndoSteps
maxUndoSteps == 50

\* the model an object belongs to (its root in the scene graph)
Root(object) == IF object = "mesh" THEN "model" ELSE object

\* the ModelViewer fields the selection and undo operations work on
Ui == [models |-> models, model |-> model, selectedObject |-> selectedObject,
       position |-> position, modelTransform |-> modelTransform,
       undoStack |-> undoStack, redoStack |-> redoStack,
       isUndoRedoAction |-> isUndoRedoAction]

\* saved states; a selection state carries no transform (-1 stands for none)
SelectionState(id) == [type |-> "selection", objectId |-> id, transform |-> -1]

TransformState(t, id) == [type |-> "transform", objectId |-> id, transform |-> t]

\* isObjectInScene: the object's chain of parents reaches the scene
isObjectInScene(u, object) == \E i \in 1 .. Len(u.models) : u.models[i] = Root(object)

deselectObject(u) ==
    IF u.selectedObject # NULL THEN [u EXCEPT !.selectedObject = NULL] ELSE u

\* updateUIFromObject: the selected object becomes this.model and its
\* transform is copied into modelTransform
updateUIFromObject(u) ==
    IF u.selectedObject # NULL
    THEN [u EXCEPT !.model = u.selectedObject,
                   !.modelTransform = u.position[u.selectedObject]]
    ELSE u

\* a push that lets the undo stack grow without limit
pushUnlimited(u, state) ==
    [u EXCEPT !.undoStack = Append(u.undoStack, state), !.redoStack = <<>>]

\* a push that keeps the redo stack
pushKeepsRedo(u, state) ==
    LET pushed == Append(u.undoStack, state)
    IN [u EXCEPT !.undoStack = IF Len(pushed) > maxUndoSteps THEN Tail(pushed) ELSE pushed]

pushToUndoStack(u, state) ==
    LET pushed == Append(u.undoStack, state)
    IN [u EXCEPT !.undoStack = IF Len(pushed) > maxUndoSteps THEN Tail(pushed) ELSE pushed,
                 !.redoStack = <<>>]

saveSelectionState(u) == pushToUndoStack(u, SelectionState(u.selectedObject))

selectObject(u, object) ==
    LET d == deselectObject(u)
    IN IF object = NULL \/ ~isObjectInScene(d, object) THEN d
       ELSE saveSelectionState(updateUIFromObject([d EXCEPT !.selectedObject = object]))

getCurrentState(u) ==
    IF u.selectedObject # NULL
    THEN TransformState(u.modelTransform, u.selectedObject)
    ELSE SelectionState(NULL)

updateModelTransform(u) ==
    IF u.model = NULL THEN u ELSE [u EXCEPT !.position[u.model] = u.modelTransform]

applyState(u, state) ==
    LET flagged == [u EXCEPT !.isUndoRedoAction = TRUE]
        applied ==
            IF state.type = "transform"
            THEN IF flagged.selectedObject # NULL /\ flagged.selectedObject = state.objectId
                 THEN updateModelTransform([flagged EXCEPT !.modelTransform = state.transform])
                 ELSE flagged
            ELSE IF state.objectId = NULL THEN deselectObject(flagged)
            ELSE IF flagged.model # NULL /\ flagged.model = state.objectId
                 THEN selectObject(flagged, flagged.model)
                 ELSE flagged
    IN [applied EXCEPT !.isUndoRedoAction = FALSE]

undo(u) ==
    IF Len(u.undoStack) = 0 THEN u
    ELSE LET state == u.undoStack[Len(u.undoStack)]
             popped == [u EXCEPT !.undoStack = SubSeq(u.undoStack, 1, Len(u.undoStack) - 1)]
         IN applyState([popped EXCEPT !.redoStack = Append(popped.redoStack, getCurrentState(popped))],
                       state)

redo(u) ==
    IF Len(u.redoStack) = 0 THEN u
    ELSE LET state == u.redoStack[Len(u.redoStack)]
             popped == [u EXCEPT !.redoStack = SubSeq(u.redoStack, 1, Len(u.redoStack) - 1)]
         IN applyState([popped EXCEPT !.undoStack = Append(popped.undoStack, getCurrentState(popped))],
                       state)

\* the step leaves the fields of u in the ModelViewer
SetUi(u) ==
    /\ models' = u.models
    /\ model' = u.model
    /\ selectedObject' = u.selectedObject
    /\ position' = u.position
    /\ modelTransform' = u.modelTransform
    /\ undoStack' = u.undoStack
    /\ redoStack' = u.redoStack
    /\ isUndoRedoAction' = u.isUndoRedoAction

\* ------------------------------------------------------ framing and reset
\* the bounding box of the mesh inside the model
MeshBox == [center |-> <<Scale, Scale, 0>>, size |-> <<Scale, 2 * Scale, Scale>>]

\* Box3().setFromObject(object)
Box(object) == IF object = "mesh" THEN MeshBox ELSE ModelBox

\* |maxDim / sin(fov / 2)|
FitDistance(box) ==
    LET maxDim == Max(box.size[1], Max(box.size[2], box.size[3]))
        halfFov == RoundDiv(Fov * Pi, 360)
    IN Abs(RoundDiv(maxDim * Unit, Sin(halfFov)))

\* a framing that leaves the pivot where a pick had put it
frameObjectKeepsPivot(object) ==
    LET center == Box(object).center
        distance == RoundDiv(FitDistance(Box(object)) * 12, 10)
        direction == normalize(subVectors(camera, center))
    IN [camera |-> addScaledVector(center, direction, distance),
        cameraTarget |-> center,
        pivotPoint |-> pivotPoint]

\* frameSelected with a selection: the camera keeps its direction from the
\* object's centre, at the fitting distance with a 20% margin
frameObject(object) ==
    LET center == Box(object).center
        distance == RoundDiv(FitDistance(Box(object)) * 12, 10)
        direction == normalize(subVectors(camera, center))
    IN [camera |-> addScaledVector(center, direction, distance),
        cameraTarget |-> center,
        pivotPoint |-> center]

\* resetCamera with a model: the camera at distance * (0.5, 0.5, 1) from the
\* model's centre; without one: the opening view
resetView ==
    IF model # NULL
    THEN LET center == Box(model).center
             distance == FitDistance(Box(model))
         IN [camera |-> <<center[1] + RoundDiv(distance, 2),
                          center[2] + RoundDiv(distance, 2),
                          center[3] + distance>>,
             cameraTarget |-> center,
             pivotPoint |-> center]
    ELSE [camera |-> <<0, 5 * Scale, 10 * Scale>>,
          cameraTarget |-> <<0, 0, 0>>,
          pivotPoint |-> <<0, 0, 0>>]

\* frameSelected: frame the selection, or all models when nothing is selected
frameSelected ==
    IF selectedObject # NULL
    THEN /\ camera' = frameObject(selectedObject).camera
         /\ cameraTarget' = frameObject(selectedObject).cameraTarget
         /\ pivotPoint' = frameObject(selectedObject).pivotPoint
         /\ UNCHANGED quaternion
    ELSE IF Len(models) > 0
    THEN /\ camera' = zoomToFitAllModels(ModelBox).camera
         /\ cameraTarget' = zoomToFitAllModels(ModelBox).cameraTarget
         /\ pivotPoint' = zoomToFitAllModels(ModelBox).pivotPoint
         /\ quaternion' = lookAt(camera', cameraTarget')
    ELSE UNCHANGED <<camera, cameraTarget, pivotPoint, quaternion>>

\* keys of the shortcut handler: <<key, shiftKey>>, Ctrl held with z
Shortcuts == {<<"z", FALSE>>, <<"z", TRUE>>, <<"escape", FALSE>>, <<"f", FALSE>>}

ShortcutOp(key, shiftKey) ==
    IF key = "z" THEN (IF shiftKey THEN "redo" ELSE "undo")
    ELSE IF key = "escape" THEN "escape"
    ELSE "frameSelected"

\* the keyboard shortcuts of the page, no input element having the focus
shortcut(key, shiftKey) ==
    /\ app = "ModelViewer"
    /\ uiSteps < MaxUiSteps
    /\ CASE key = "z" ->
              /\ SetUi(IF shiftKey THEN redo(Ui) ELSE undo(Ui))
              /\ UNCHANGED <<camera, cameraTarget, pivotPoint, quaternion>>
         [] key = "escape" ->
              /\ SetUi(IF selectedObject # NULL THEN deselectObject(saveSelectionState(Ui)) ELSE Ui)
              /\ UNCHANGED <<camera, cameraTarget, pivotPoint, quaternion>>
         [] OTHER ->
              /\ SetUi(Ui)
              /\ frameSelected
    /\ uiSteps' = uiSteps + 1
    /\ last' = Event(ShortcutOp(key, shiftKey))
    /\ UNCHANGED <<page, app, isAltDown, activeControl, prevMouse, distanceToPivot,
                   zoomStartDistance, moves>>

\* a click on an item of the outliner
outlinerClick(object) ==
    /\ app = "ModelViewer"
    /\ uiSteps < MaxUiSteps
    /\ SetUi(selectObject(Ui, object))
    /\ uiSteps' = uiSteps + 1
    /\ last' = Event("selectObject")
    /\ UNCHANGED <<page, app, camera, cameraTarget, pivotPoint, quaternion, isAltDown,
                   activeControl, prevMouse, distanceToPivot, zoomStartDistance, moves>>

resetCamera ==
    /\ app = "ModelViewer"
    /\ uiSteps < MaxUiSteps
    /\ camera' = resetView.camera
    /\ cameraTarget' = resetView.cameraTarget
    /\ pivotPoint' = resetView.pivotPoint
    /\ quaternion' = lookAt(camera', cameraTarget')
    /\ uiSteps' = uiSteps + 1
    /\ last' = Event("resetCamera")
    /\ UNCHANGED <<page, app, isAltDown, activeControl, prevMouse, distanceToPivot,
                   zoomStartDistance, model, moves, models, selectedObject, position,
                   modelTransform, undoStack, redoStack, isUndoRedoAction>>

\* resetTransform: modelTransform back to its defaults, applied to this.model
resetTransform ==
    /\ app = "ModelViewer"
    /\ uiSteps < MaxUiSteps
    /\ SetUi(updateModelTransform([Ui EXCEPT !.modelTransform = 0]))
    /\ uiSteps' = uiSteps + 1
    /\ last' = Event("resetTransform")
    /\ UNCHANGED <<page, app, camera, cameraTarget, pivotPoint, quaternion, isAltDown,
                   activeControl, prevMouse, distanceToPivot, zoomStartDistance, moves>>

\* ------------------------------------------------------------ file loads
\* file extensions: one with a loader (the callbacks of the three loaders are
\* alike), one without
Extensions == {"obj", "txt"}

Supported == {"obj", "fbx", "gltf", "glb"}

\* URL.createObjectURL(file): a new URL at every call
fileURL == Len(started) + 1

\* the object a loader builds from the file behind url
Loaded(url) == "object" \o ToString(url)

\* this.loadingModels[url] = status and delete this.loadingModels[url]
Put(f, url, status) == [x \in DOMAIN f \cup {url} |-> IF x = url THEN status ELSE f[x]]

Delete(f, url) == [x \in DOMAIN f \ {url} |-> f[x]]

\* loadModel(file, isImport): a file that is opened replaces the models of the
\* scene, an imported one is added; the loader's callbacks run later
loadModel(extension, isImport) ==
    /\ app = "ModelViewer"
    /\ uiSteps < MaxUiSteps
    /\ SetUi(IF ~isImport /\ Len(models) > 0
             THEN [Ui EXCEPT !.models = <<>>, !.model = NULL]
             ELSE Ui)
    /\ started' = Append(started, [extension |-> extension, isImport |-> isImport])
    /\ IF extension \in Supported
       THEN /\ loadingModels' = Put(loadingModels, fileURL, "loading")
            /\ requests' = requests \cup {[url |-> fileURL, isImport |-> isImport]}
            /\ UNCHANGED alerts
       ELSE /\ loadingModels' = Delete(Put(loadingModels, fileURL, "loading"), fileURL)
            /\ alerts' = alerts \cup {<<fileURL, "unsupported">>}
            /\ UNCHANGED requests
    /\ uiSteps' = uiSteps + 1
    /\ last' = Event("loadModel")
    /\ UNCHANGED <<altKeyPressed, clickedOnManipulator, controls, loop>>
    /\ UNCHANGED <<app, camera, cameraTarget, pivotPoint, quaternion, isAltDown,
                   activeControl, prevMouse, distanceToPivot, zoomStartDistance, moves>>

\* an error callback that alerts whatever the status of the entry
errorAlertAlways(f, url) == url \in DOMAIN f

\* the error callback alerts if the entry exists and never reached 'success'
errorAlert(f, url) == url \in DOMAIN f /\ f[url] # "success"

\* the error callback of loader.load, on the tracking table f
errorCallback(f, url) ==
    [loadingModels |-> Delete(f, url),
     alerts |-> IF errorAlert(f, url) THEN alerts \cup {<<url, "error">>} ELSE alerts]

\* the first statement of the success callback
markSuccess(f, url) == IF url \in DOMAIN f THEN Put(f, url, "success") ELSE f

\* The success callback of loader.load.  It marks the entry, runs
\* processLoadedModel (the object joins the scene and this.models, becomes
\* this.model, and zoomToFitAllModels frames the scene) and deletes the entry.
\* When processLoadedModel raises on the object it is given, before it touches
\* the scene, the loader reports the exception through the error callback.
onLoad(r, raises) ==
    /\ app = "ModelViewer"
    /\ r \in requests
    /\ requests' = requests \ {r}
    /\ IF raises
       THEN /\ loadingModels' = errorCallback(markSuccess(loadingModels, r.url), r.url).loadingModels
            /\ alerts' = errorCallback(markSuccess(loadingModels, r.url), r.url).alerts
            /\ UNCHANGED <<models, model, position, camera, cameraTarget, pivotPoint, quaternion>>
       ELSE /\ loadingModels' = Delete(markSuccess(loadingModels, r.url), r.url)
            /\ UNCHANGED alerts
            /\ models' = Append(models, Loaded(r.url))
            /\ model' = Loaded(r.url)
            /\ position' = [o \in DOMAIN position \cup {Loaded(r.url)} |->
                                IF o = Loaded(r.url) THEN 0 ELSE position[o]]
            /\ camera' = zoomToFitAllModels(ModelBox).camera
            /\ cameraTarget' = zoomToFitAllModels(ModelBox).cameraTarget
            /\ pivotPoint' = zoomToFitAllModels(ModelBox).pivotPoint
            /\ quaternion' = lookAt(camera', cameraTarget')
    /\ last' = Event("onLoad")
    /\ UNCHANGED <<started, altKeyPressed, clickedOnManipulator, controls, loop>>
    /\ UNCHANGED <<selectedObject, modelTransform, undoStack, redoStack, isUndoRedoAction, uiSteps>>
    /\ UNCHANGED <<app, isAltDown, activeControl, prevMouse, distanceToPivot,
                   zoomStartDistance, moves>>

\* the error callback of loader.load, the file not having loaded
onError(r) ==
    /\ app = "ModelViewer"
    /\ r \in requests
    /\ requests' = requests \ {r}
    /\ loadingModels' = errorCallback(loadingModels, r.url).loadingModels
    /\ alerts' = errorCallback(loadingModels, r.url).alerts
    /\ last' = Event("onError")
    /\ UNCHANGED <<started, altKeyPressed, clickedOnManipulator, controls, loop, ui>>
    /\ UNCHANGED <<app, camera, cameraTarget, pivotPoint, quaternion, isAltDown, activeControl,
                   prevMouse, distanceToPivot, zoomStartDistance, model, moves>>

\* A fourth specification follows the framing operations of the ModelViewer
\* among picks of the pivot, selections and wheel steps.
InitFrame ==
    /\ (InitViewer \/ InitViewerLoaded)
    /\ InitUi
    /\ InitPage
    /\ quaternion = lookAt(camera, cameraTarget)
    /\ isAltDown = FALSE
    /\ altKeyPressed = FALSE
    /\ activeControl = NULL
    /\ prevMouse = <<0, 0>>
    /\ distanceToPivot = 0
    /\ zoomStartDistance = 0
    /\ moves = 0
    /\ last = [op |-> "init", was |-> NULL]

NextFrame ==
    \/ \E hit \in HitPoints : click(0, TRUE, hit)
    \/ \E deltaY \in ZoomWheelDeltas : wheel(deltaY)
    \/ animate
    \/ \E object \in Objects : outlinerClick(object)
    \/ \E k \in Shortcuts : shortcut(k[1], k[2])
    \/ resetCamera

FrameSpec == InitFrame /\ [][NextFrame]_vars

\* C17: frameSelected with a selection, the framing of all models when there
\* is one, and resetCamera each end with the pivot equal to the look-at
\* target, both at the centre of the framed bounding box, or at the origin
\* when resetCamera runs without a model.
C17_FramingResetsPivot ==
    [][/\ (Handles("frameSelected") /\ selectedObject # NULL)
             => (pivotPoint' = Box(selectedObject).center /\ cameraTarget' = pivotPoint')
       /\ (Handles("frameSelected") /\ selectedObject = NULL /\ Len(models) > 0)
             => (pivotPoint' = ModelBox.center /\ cameraTarget' = pivotPoint')
       /\ Handles("resetCamera")
             => /\ pivotPoint' = IF model # NULL THEN Box(model).center ELSE <<0, 0, 0>>
                /\ cameraTarget' = pivotPoint']_vars

\* C17 witness: the selected mesh was framed and pivot and target sit on the
\* centre of its box.
C17_Witness ==
    /\ last.op = "frameSelected" /\ selectedObject = "mesh"
    /\ pivotPoint = MeshBox.center /\ cameraTarget = MeshBox.center

\* ------------------------------------------------------- undo and redo
\* A fifth specification follows selections, Escape, undo and redo on an
\* opened model.  It starts from the opened model with an empty history, and
\* from the histories that n alternating selections of the model and its mesh
\* in the outliner leave, for n one short of the limit and at the limit.

\* the history after n clicks in the outliner, on the model and the mesh in turn
Clicked(n) == IF n % 2 = 1 THEN "model" ELSE "mesh"

InitUndo ==
    /\ app = "ModelViewer"
    /\ camera = zoomToFitAllModels(ModelBox).camera
    /\ cameraTarget = zoomToFitAllModels(ModelBox).cameraTarget
    /\ pivotPoint = zoomToFitAllModels(ModelBox).pivotPoint
    /\ models = <<"model">>
    /\ position = [o \in Objects |-> IF o = "mesh" THEN 1 ELSE 0]
    /\ \E n \in {0, maxUndoSteps - 1, maxUndoSteps} :
          /\ undoStack = [i \in 1 .. n |-> SelectionState(Clicked(i))]
          /\ selectedObject = IF n = 0 THEN NULL ELSE Clicked(n)
          /\ model = IF n = 0 THEN "model" ELSE Clicked(n)
          /\ modelTransform = IF n = 0 THEN 0 ELSE position[Clicked(n)]
    /\ redoStack = <<>>
    /\ isUndoRedoAction = FALSE
    /\ uiSteps = 0
    /\ InitPage
    /\ quaternion = lookAt(camera, cameraTarget)
    /\ isAltDown = FALSE
    /\ altKeyPressed = FALSE
    /\ activeControl = NULL
    /\ prevMouse = <<0, 0>>
    /\ distanceToPivot = 0
    /\ zoomStartDistance = 0
    /\ moves = 0
    /\ last = [op |-> "init", was |-> NULL]

NextUndo ==
    \/ \E object \in Objects : outlinerClick(object)
    \/ \E k \in Shortcuts : shortcut(k[1], k[2])
    \/ resetTransform
    \/ loadModel("obj", FALSE)

UndoSpec == InitUndo /\ [][NextUndo]_vars

\* C18: after every selection, Escape, undo and redo the undo stack holds at
\* most maxUndoSteps entries, and a push onto a full stack discards the oldest
\* entry and keeps the others in their order.
C18_UndoStackBounded ==
    [][/\ Len(undoStack') <= maxUndoSteps
       /\ (/\ last'.op \in {"selectObject", "escape"}
           /\ Len(undoStack) = maxUndoSteps
           /\ undoStack' # undoStack)
             => /\ Len(undoStack') = maxUndoSteps
                /\ \A i \in 1 .. maxUndoSteps - 1 : undoStack'[i] = undoStack[i + 1]]_vars

\* C18 witness: a selection was pushed onto a full undo stack and its oldest
\* entry is gone.
C18_Witness ==
    /\ last.op = "selectObject" /\ uiSteps = 1 /\ Len(undoStack) = maxUndoSteps
    /\ undoStack[1] = SelectionState("mesh")
    /\ undoStack[maxUndoSteps] = SelectionState(selectedObject)

\* C19: undo() on a non-empty undo stack shortens the undo stack by exactly
\* one and lengthens the redo stack by exactly one; nothing is pushed and the
\* redo stack is not cleared while the saved state is applied.
C19_UndoMovesOneEntry ==
    [][(Handles("undo") /\ Len(undoStack) > 0)
          => /\ Len(undoStack') = Len(undoStack) - 1
             /\ Len(redoStack') = Len(redoStack) + 1]_vars

\* C20: a selection, an Escape or an undo that records a new entry leaves the
\* redo stack empty; redo() on an empty redo stack and undo() on an empty undo
\* stack change neither stack, the selection nor the transforms.
C20_PushClearsRedo ==
    [][/\ (Handles("selectObject") /\ selectedObject' # NULL) => redoStack' = <<>>
       /\ (Handles("escape") /\ selectedObject # NULL) => redoStack' = <<>>
       /\ (Handles("redo") /\ Len(redoStack) = 0)
             => UNCHANGED <<undoStack, redoStack, selectedObject, model, modelTransform, position>>
       /\ (Handles("undo") /\ Len(undoStack) = 0)
             => UNCHANGED <<undoStack, redoStack, selectedObject, model, modelTransform, position>>]_vars

\* C20 witness: Escape recorded the selection after an undo had left an entry
\* on the redo stack while a file was loading.
C20_Witness ==
    /\ last.op = "escape" /\ model = NULL /\ selectedObject = NULL /\ uiSteps = 3
    /\ redoStack = <<>> /\ Len(undoStack) = maxUndoSteps

\* ------------------------------------------------ drag mode and modifier
\* C25: in every reachable state of the rig a non-null drag mode implies that
\* the modifier flag isAltDown is true, for any interleaving of key, pointer
\* and wheel events.
C25_ModeImpliesAlt == activeControl # NULL => isAltDown

\* C25 witness: a drag of the MayaControls rig is under way, the mode set by a
\* pointer-down and a pointer-move handled in it, with Alt still held.
C25_Witness ==
    /\ app = "App"
    /\ last.op = "mousemove"
    /\ activeControl \in Modes
    /\ isAltDown
    /\ moves > 0

\* ------------------------------------------- camera drags and the selection
\* A sixth specification follows one pointer gesture on the canvas of the
\* ModelViewer that began as a camera drag: it starts when the pointer-down
\* of the left button with Alt held has been handled (the left button is the
\* one whose release is followed by a click event), a model is open, and the
\* model is selected or nothing is.  The browser dispatches the click event
\* right after the pointer-up; the Alt keyup may come at any point before it.
InitGesture ==
    /\ InitViewerLoaded
    /\ models = <<"model">>
    /\ selectedObject \in {NULL, "model"}
    /\ position = [o \in Objects |-> IF o = "mesh" THEN 1 ELSE 0]
    /\ modelTransform = 0
    /\ undoStack = <<>>
    /\ redoStack = <<>>
    /\ isUndoRedoAction = FALSE
    /\ uiSteps = 0
    /\ InitPage
    /\ quaternion = lookAt(camera, cameraTarget)
    /\ isAltDown = TRUE
    /\ altKeyPressed = TRUE
    /\ activeControl = ControlForButton(0)
    /\ prevMouse = <<0, 0>>
    /\ distanceToPivot = distanceTo(camera, pivotPoint)
    /\ zoomStartDistance = distanceTo(camera, pivotPoint)
    /\ moves = -ExtraSteps
    /\ last = [op |-> "mousedown", was |-> NULL]

\* the button is still down: neither the pointer-up nor the click has come
ButtonDown == last.op \notin {"mouseup", "click"}

NextGesture ==
    \/ \E key \in Keys : ButtonDown /\ keydown(key)
    \/ \E key \in Keys : ButtonDown /\ keyup(key)
    \/ \E pos \in MousePos : ButtonDown /\ mousemove(pos)
    \/ ButtonDown /\ mouseup
    \/ \E hit \in HitPoints \cup {NoHit} : last.op = "mouseup" /\ click(0, FALSE, hit)

GestureSpec == InitGesture /\ [][NextGesture]_vars

\* C26: the click that ends a pointer gesture begun as a camera drag (pointer-
\* down on the canvas with Alt held) leaves selectedObject as it was, whether
\* Alt is released before or after the button.
C26_CameraDragKeepsSelection ==
    [][Handles("click") => selectedObject' = selectedObject]_vars

\* --------------------------------------------------- opening and importing
\* A seventh specification follows the file loads of a freshly opened
\* ModelViewer: files are opened and imported, the loaders call back in any
\* order, and loaded models are selected in the outliner.
InitLoad ==
    /\ InitViewer
    /\ InitUi
    /\ InitPage
    /\ quaternion = lookAt(camera, cameraTarget)
    /\ isAltDown = FALSE
    /\ altKeyPressed = FALSE
    /\ activeControl = NULL
    /\ prevMouse = <<0, 0>>
    /\ distanceToPivot = 0
    /\ zoomStartDistance = 0
    /\ moves = 0
    /\ last = [op |-> "init", was |-> NULL]

\* the loader of the request for url calls back: with the object, or with an error
Callback(url) ==
    \E r \in requests :
        /\ r.url = url
        /\ (onError(r) \/ \E raises \in BOOLEAN : onLoad(r, raises))

NextLoad ==
    \/ \E extension \in Extensions, isImport \in BOOLEAN : loadModel(extension, isImport)
    \/ \E r \in requests, raises \in BOOLEAN : onLoad(r, raises)
    \/ \E r \in requests : onError(r)
    \/ \E i \in 1 .. Len(models) : outlinerClick(models[i])

LoadSpec == InitLoad /\ [][NextLoad]_vars

\* every loader.load call ends with one of its callbacks
LoadLiveSpec == LoadSpec /\ \A url \in 1 .. MaxUiSteps : WF_vars(Callback(url))

\* the loadModel call that produced a model of the scene
LoadOf(object) == CHOOSE url \in 1 .. Len(started) : Loaded(url) = object

\* the most recent loadModel call that started a loader with isImport = false,
\* 0 when there is none
LastOpen ==
    LET opens == {url \in 1 .. Len(started) :
                     ~started[url].isImport /\ started[url].extension \in Supported}
    IN IF opens = {} THEN 0 ELSE CHOOSE url \in opens : \A other \in opens : other <= url

\* C21: once the loads in flight have completed, no model of a load started
\* before the most recent non-import load remains in this.models, and the
\* model of that load is the first of this.models when it is there at all;
\* also when a second file is opened before the first load has called back.
C21_OpenReplacesScene ==
    requests = {} =>
        \A i \in 1 .. Len(models) :
            /\ LoadOf(models[i]) >= LastOpen
            /\ (LoadOf(models[i]) = LastOpen => i = 1)

\* C22: loadingModels holds exactly the entries of the loads in flight (an
\* unsupported extension leaves none, and none is left when no load is in
\* flight); the error alert of a load is raised only by its error callback
\* finding the entry with a status other than 'success'; and every entry is
\* eventually deleted.
C22_EntriesDeleted ==
    /\ [](DOMAIN loadingModels = {r.url : r \in requests})
    /\ [][\A url \in 1 .. MaxUiSteps :
              (<<url, "error">> \in alerts' /\ <<url, "error">> \notin alerts)
                 => /\ Handles("onError")
                    /\ url \in DOMAIN loadingModels
                    /\ loadingModels[url] # "success"]_vars
    /\ \A url \in 1 .. MaxUiSteps :
          (url \in DOMAIN loadingModels) ~> (url \notin DOMAIN loadingModels)

\* C22 witness: three loads are over, one by its error callback with the
\* alert, one at once for an unsupported extension, one by a success callback
\* in which processLoadedModel raised, and no entry is left.
C22_Witness ==
    /\ requests = {}
    /\ DOMAIN loadingModels = {}
    /\ alerts = {<<1, "error">>, <<2, "unsupported">>}
    /\ Len(started) = 3
    /\ last.op = "onLoad"
    /\ Len(models) = 0

\* C27: selectedObject is null or an object of the scene graph, also after a
\* file that is opened has removed the models of the scene.
C27_SelectionInScene ==
    selectedObject = NULL \/ isObjectInScene(Ui, selectedObject)

\* ------------------------------------------------- MayaControls.dispose
\* dispose: removeEventListener is called with methods bound anew, that is
\* with functions no addEventListener call has seen
dispose ==
    /\ app = "App"
    /\ listeners' = listeners \ Listeners("dispose")
    /\ disposed' = TRUE
    /\ last' = Event("dispose")
    /\ UNCHANGED <<altKeyPressed, clickedOnManipulator, loop, loads, ui>>
    /\ UNCHANGED <<app, camera, cameraTarget, pivotPoint, quaternion, isAltDown, activeControl,
                   prevMouse, distanceToPivot, zoomStartDistance, model, moves>>

\* An eighth specification follows the events that reach the App page before
\* and after dispose() of its MayaControls.
InitDispose ==
    /\ InitApp
    /\ InitUi
    /\ InitPage
    /\ quaternion = lookAt(camera, cameraTarget)
    /\ isAltDown = FALSE
    /\ altKeyPressed = FALSE
    /\ activeControl = NULL
    /\ prevMouse = <<0, 0>>
    /\ distanceToPivot = 0
    /\ zoomStartDistance = 0
    /\ moves = 0
    /\ last = [op |-> "init", was |-> NULL]

NextDispose ==
    \/ \E key \in Keys : onKeyDown(key)
    \/ \E key \in Keys : onKeyUp(key)
    \/ \E button \in Buttons, pos \in MousePos : onMouseDown(button, pos)
    \/ \E pos \in MousePos : onMouseMove(pos)
    \/ onMouseUp
    \/ \E deltaY \in WheelDeltas : onWheel(deltaY)
    \/ \E c \in Clicks : onClick(c[1], c[3])
    \/ dispose

DisposeSpec == InitDispose /\ [][NextDispose]_vars

\* C23: after dispose() no key, mouse, click or wheel event changes isAltDown,
\* activeControl, the camera position, the look-at target or the pivot.
C23_DisposeSilences ==
    [][disposed => UNCHANGED <<isAltDown, activeControl, camera, cameraTarget, pivotPoint>>]_vars

\* ------------------------------------------- the Viewport's animation loop
\* calls of Viewport.render() per behaviour
MaxFrames == 3

\* An animation frame runs the callback the Viewport requested,
\* Viewport.animate: it sets animating, renders and requests the next frame.
Viewport_animate ==
    /\ app = "App"
    /\ frames > 0
    /\ renders < MaxFrames
    /\ animating' = TRUE
    /\ renders' = renders + 1
    /\ frames' = (frames - 1) + 1
    /\ last' = Event("Viewport.animate")
    /\ UNCHANGED <<stopped, altKeyPressed, clickedOnManipulator, controls, loads, ui>>
    /\ UNCHANGED <<app, camera, cameraTarget, pivotPoint, quaternion, isAltDown, activeControl,
                   prevMouse, distanceToPivot, zoomStartDistance, model, moves>>

\* Viewport.stopAnimation
Viewport_stopAnimation ==
    /\ app = "App"
    /\ animating' = FALSE
    /\ stopped' = TRUE
    /\ last' = Event("Viewport.stopAnimation")
    /\ UNCHANGED <<frames, renders, altKeyPressed, clickedOnManipulator, controls, loads, ui>>
    /\ UNCHANGED <<app, camera, cameraTarget, pivotPoint, quaternion, isAltDown, activeControl,
                   prevMouse, distanceToPivot, zoomStartDistance, model, moves>>

\* Viewport.dispose: stopAnimation(), then the objects, the renderer and the
\* canvas are released; the frame that was requested stays requested
Viewport_dispose ==
    /\ app = "App"
    /\ animating' = FALSE
    /\ stopped' = TRUE
    /\ last' = Event("Viewport.dispose")
    /\ UNCHANGED <<frames, renders, altKeyPressed, clickedOnManipulator, controls, loads, ui>>
    /\ UNCHANGED <<app, camera, cameraTarget, pivotPoint, quaternion, isAltDown, activeControl,
                   prevMouse, distanceToPivot, zoomStartDistance, model, moves>>

\* A ninth specification follows the animation loop of the Viewport of the
\* App page among wheel steps, pivot changes and updates of its controls.
InitViewport ==
    /\ InitApp
    /\ InitUi
    /\ InitPage
    /\ quaternion = lookAt(camera, cameraTarget)
    /\ isAltDown = FALSE
    /\ altKeyPressed = FALSE
    /\ activeControl = NULL
    /\ prevMouse = <<0, 0>>
    /\ distanceToPivot = 0
    /\ zoomStartDistance = 0
    /\ moves = 0
    /\ last = [op |-> "init", was |-> NULL]

NextViewport ==
    \/ Viewport_animate
    \/ Viewport_stopAnimation
    \/ Viewport_dispose
    \/ \E deltaY \in WheelDeltas : onWheel(deltaY)
    \/ \E point \in PivotArgs : setPivotPoint(point)
    \/ update

ViewportSpec == InitViewport /\ [][NextViewport]_vars

\* C24: after stopAnimation(), and after dispose(), which calls it, animating
\* stays false and no later animation frame calls render().
C24_StopAnimationStops ==
    [][stopped => (~animating' /\ renders' = renders)]_vars

====
